---- MODULE Spec2Model ----
(***************************************************************************)
(* Model of trytond-sale-data-warehouse (sale.py): the view definition     *)
(* built by SaleLine.get_warehouse_query, the materialized view            *)
(* dw_sale_line created by SaleLine.build_data_warehouse and the refresh   *)
(* protocol of SaleLine.refresh_data_warehouse, over a small relational    *)
(* database, the transaction stack of the host framework and the           *)
(* database engine's materialized-view statements.                         *)
(***************************************************************************)
EXTENDS Integers, Sequences, FiniteSets, TLC

(***************************************************************************)
(* SQL values.  A column value is NULL or Some(v).                         *)
(***************************************************************************)
NULL == <<>>
Some(v) == <<v>>

\* Number of committed source writes by other users explored per behaviour.
MaxWrites == 1

(***************************************************************************)
(* The registry names of the entities the query reads (sale.py 41-56,     *)
(* 140).                                                                   *)
(***************************************************************************)
RequiredModels ==
    {"sale.line", "sale.sale", "product.template", "product.product",
     "product.category", "party.party", "party.address", "country.country",
     "country.subdivision", "currency.currency"}

OptionalModels == {"sale.channel"}

\* The columns of each table that the query reads.
Schema ==
    [m \in RequiredModels \cup OptionalModels |->
       CASE m = "sale.line" ->
              {"id", "sale", "type", "quantity", "unit_price", "product"}
         [] m = "sale.sale" ->
              {"id", "state", "reference", "sale_date", "party", "currency",
               "shipment_address", "invoice_address", "channel"}
         [] m = "product.product" -> {"id", "code", "template"}
         [] m = "product.template" -> {"id", "name", "category"}
         [] m = "product.category" -> {"id", "name"}
         [] m = "party.party" -> {"id", "name"}
         [] m = "party.address" -> {"id", "country", "subdivision"}
         [] m = "country.country" -> {"id", "code", "name"}
         [] m = "country.subdivision" -> {"id", "code", "name"}
         [] m = "currency.currency" -> {"id", "code"}
         [] m = "sale.channel" -> {"id", "code", "name"}]

\* The row a LEFT OUTER join supplies when nothing matches: every column NULL.
NullRow(m) == [f \in Schema[m] |-> NULL]

(***************************************************************************)
(* python-sql expressions used by the query.                               *)
(***************************************************************************)
Column(t, name) == [op |-> "Column", table |-> t, name |-> name]
Mul(a, b) == [op |-> "Mul", left |-> a, right |-> b]
ToChar(a, fmt) == [op |-> "ToChar", arg |-> a, format |-> fmt]
As(e, alias) == [expr |-> e, as_ |-> alias]
Join(alias, m, type_, left, right) ==
    [alias |-> alias, model |-> m, type_ |-> type_, left |-> left,
     right |-> right]

\* Pool().get(pool_name).__table__(): KeyError when the model is not
\* registered.
table(pool, pool_name) ==
    IF pool_name \in pool THEN [found |-> TRUE, model |-> pool_name]
    ELSE [found |-> FALSE, model |-> pool_name]

(***************************************************************************)
(* SaleLine.get_warehouse_query.  A table handle is named after the local  *)
(* variable that holds it; shipment_address and invoice_address are two    *)
(* handles on party.address, and likewise for countries and subdivisions.  *)
(***************************************************************************)
tables ==
    [m \in {"sale.line", "sale.sale", "product.template", "product.product",
            "product.category", "party.party"} |->
       CASE m = "sale.line" -> "sale_line"
         [] m = "sale.sale" -> "sale_sale"
         [] m = "product.template" -> "product_template"
         [] m = "product.product" -> "product_product"
         [] m = "product.category" -> "product_category"
         [] m = "party.party" -> "party_party"]

columns ==
    << As(Column("sale_line", "id"), "id"),
       As(Column("sale_line", "quantity"), "quantity"),
       As(Mul(Column("sale_line", "quantity"),
              Column("sale_line", "unit_price")), "amount"),
       As(Column("product_product", "code"), "product_code"),
       As(Column("product_template", "name"), "product_name"),
       As(Column("product_category", "name"), "product_category"),
       As(Column("party_party", "name"), "party_name"),
       As(Column("party_party", "id"), "party_id"),
       As(Column("sale_sale", "id"), "sale_id"),
       As(Column("sale_sale", "reference"), "sale_reference"),
       As(Column("currency_currency", "code"), "currency"),
       As(Column("sale_sale", "state"), "state"),
       As(Column("invoice_country", "code"), "invoice_country_code"),
       As(Column("invoice_country", "name"), "invoice_country_name"),
       As(Column("invoice_subdivision", "code"), "invoice_state_code"),
       As(Column("invoice_subdivision", "name"), "invoice_state_name"),
       As(Column("shipment_country", "code"), "shipment_country_code"),
       As(Column("shipment_country", "name"), "shipment_country_name"),
       As(Column("shipment_subdivision", "code"), "shipment_state_code"),
       As(Column("shipment_subdivision", "name"), "shipment_state_name"),
       As(Column("sale_sale", "sale_date"), "sale_date"),
       As(ToChar(Column("sale_sale", "sale_date"), "YYYY"), "sale_year"),
       As(ToChar(Column("sale_sale", "sale_date"), "MM"), "sale_month"),
       As(ToChar(Column("sale_sale", "sale_date"), "dd"), "sale_day") >>

\* The join chain without the LEFT OUTER tag: the product join made inner.
from_inner_product ==
    [base |-> [alias |-> "sale_line", model |-> "sale.line"],
     joins |->
       << Join("sale_sale", "sale.sale", "INNER",
               Column("sale_line", "sale"), Column("sale_sale", "id")),
          Join("product_product", "product.product", "INNER",
               Column("sale_line", "product"),
               Column("product_product", "id")),
          Join("product_template", "product.template", "LEFT OUTER",
               Column("product_product", "template"),
               Column("product_template", "id")),
          Join("product_category", "product.category", "LEFT OUTER",
               Column("product_template", "category"),
               Column("product_category", "id")),
          Join("party_party", "party.party", "LEFT OUTER",
               Column("sale_sale", "party"), Column("party_party", "id")),
          Join("shipment_address", "party.address", "LEFT OUTER",
               Column("sale_sale", "shipment_address"),
               Column("shipment_address", "id")),
          Join("shipment_country", "country.country", "LEFT OUTER",
               Column("shipment_address", "country"),
               Column("shipment_country", "id")),
          Join("shipment_subdivision", "country.subdivision", "LEFT OUTER",
               Column("shipment_address", "subdivision"),
               Column("shipment_subdivision", "id")),
          Join("invoice_address", "party.address", "LEFT OUTER",
               Column("sale_sale", "invoice_address"),
               Column("invoice_address", "id")),
          Join("invoice_country", "country.country", "LEFT OUTER",
               Column("invoice_address", "country"),
               Column("invoice_country", "id")),
          Join("invoice_subdivision", "country.subdivision", "LEFT OUTER",
               Column("invoice_address", "subdivision"),
               Column("invoice_subdivision", "id")),
          Join("currency_currency", "currency.currency", "LEFT OUTER",
               Column("sale_sale", "currency"),
               Column("currency_currency", "id")) >>]

from_ ==
    [base |-> [alias |-> "sale_line", model |-> "sale.line"],
     joins |->
       << Join("sale_sale", "sale.sale", "INNER",
               Column("sale_line", "sale"), Column("sale_sale", "id")),
          Join("product_product", "product.product", "LEFT OUTER",
               Column("sale_line", "product"),
               Column("product_product", "id")),
          Join("product_template", "product.template", "LEFT OUTER",
               Column("product_product", "template"),
               Column("product_template", "id")),
          Join("product_category", "product.category", "LEFT OUTER",
               Column("product_template", "category"),
               Column("product_category", "id")),
          Join("party_party", "party.party", "LEFT OUTER",
               Column("sale_sale", "party"), Column("party_party", "id")),
          Join("shipment_address", "party.address", "LEFT OUTER",
               Column("sale_sale", "shipment_address"),
               Column("shipment_address", "id")),
          Join("shipment_country", "country.country", "LEFT OUTER",
               Column("shipment_address", "country"),
               Column("shipment_country", "id")),
          Join("shipment_subdivision", "country.subdivision", "LEFT OUTER",
               Column("shipment_address", "subdivision"),
               Column("shipment_subdivision", "id")),
          Join("invoice_address", "party.address", "LEFT OUTER",
               Column("sale_sale", "invoice_address"),
               Column("invoice_address", "id")),
          Join("invoice_country", "country.country", "LEFT OUTER",
               Column("invoice_address", "country"),
               Column("invoice_country", "id")),
          Join("invoice_subdivision", "country.subdivision", "LEFT OUTER",
               Column("invoice_address", "subdivision"),
               Column("invoice_subdivision", "id")),
          Join("currency_currency", "currency.currency", "LEFT OUTER",
               Column("sale_sale", "currency"),
               Column("currency_currency", "id")) >>]

\* The filter with the quotation state let through.
where_with_quotation ==
    [op |-> "And",
     left |-> [op |-> "In", arg |-> Column("sale_sale", "state"),
               values |-> {"quotation", "confirmed", "processing", "done"}],
     right |-> [op |-> "Equal", arg |-> Column("sale_line", "type"),
                value |-> "line"]]

where ==
    [op |-> "And",
     left |-> [op |-> "In", arg |-> Column("sale_sale", "state"),
               values |-> {"confirmed", "processing", "done"}],
     right |-> [op |-> "Equal", arg |-> Column("sale_line", "type"),
                value |-> "line"]]

\* The optional extension with the channel columns put first.
get_warehouse_query_channel_first(pool) ==
    LET sale_channel == table(pool, "sale.channel")
        channel == << As(Column("sale_channel", "code"), "channel_code"),
                      As(Column("sale_channel", "name"), "channel_name") >>
    IN  IF ~sale_channel.found
        THEN [from_ |-> from_, columns |-> columns, where |-> where,
              tables |-> tables]
        ELSE [from_ |-> [from_ EXCEPT !.joins =
                           Append(@, Join("sale_channel", "sale.channel",
                                          "LEFT OUTER",
                                          Column("sale_sale", "channel"),
                                          Column("sale_channel", "id")))],
              columns |-> channel \o columns,
              where |-> where,
              tables |-> tables]

get_warehouse_query(pool) ==
    LET sale_channel == table(pool, "sale.channel")
    IN  IF ~sale_channel.found
        THEN \* KeyError: module is not installed
             [from_ |-> from_, columns |-> columns, where |-> where,
              tables |-> tables]
        ELSE [from_ |-> [from_ EXCEPT !.joins =
                           Append(@, Join("sale_channel", "sale.channel",
                                          "LEFT OUTER",
                                          Column("sale_sale", "channel"),
                                          Column("sale_channel", "id")))],
              columns |-> columns \o
                          << As(Column("sale_channel", "code"),
                                "channel_code"),
                             As(Column("sale_channel", "name"),
                                "channel_name") >>,
              where |-> where,
              tables |-> tables]

(***************************************************************************)
(* The database engine's evaluation of a select statement: the join chain  *)
(* applied left to right, the filter under SQL's three-valued logic (a     *)
(* NULL condition rejects the row), then the projection.  The result is a  *)
(* bag of rows: a function from each distinct row to the number of times   *)
(* it occurs.                                                              *)
(***************************************************************************)
Digit == [d \in 0..9 |->
            CASE d = 0 -> "0" [] d = 1 -> "1" [] d = 2 -> "2" [] d = 3 -> "3"
              [] d = 4 -> "4" [] d = 5 -> "5" [] d = 6 -> "6" [] d = 7 -> "7"
              [] d = 8 -> "8" [] d = 9 -> "9"]

\* to_char(date, format) for the three formats the query uses.
to_char(date, format) ==
    CASE format = "YYYY" ->
           Digit[(date.year \div 1000) % 10] \o Digit[(date.year \div 100) % 10]
           \o Digit[(date.year \div 10) % 10] \o Digit[date.year % 10]
      [] format = "MM" ->
           Digit[(date.month \div 10) % 10] \o Digit[date.month % 10]
      [] format = "dd" ->
           Digit[(date.day \div 10) % 10] \o Digit[date.day % 10]

RECURSIVE Eval(_, _)
Eval(e, t) ==
    CASE e.op = "Column" -> t[e.table][e.name]
      [] e.op = "Mul" ->
           LET a == Eval(e.left, t)
               b == Eval(e.right, t)
           IN  IF a = NULL \/ b = NULL THEN NULL ELSE Some(a[1] * b[1])
      [] e.op = "ToChar" ->
           LET a == Eval(e.arg, t)
           IN  IF a = NULL THEN NULL ELSE Some(to_char(a[1], e.format))

\* A condition is TRUE, FALSE or NULL (Some(TRUE), Some(FALSE), NULL).
RECURSIVE Cond(_, _)
Cond(c, t) ==
    CASE c.op = "In" ->
           LET a == Eval(c.arg, t)
           IN  IF a = NULL THEN NULL ELSE Some(a[1] \in c.values)
      [] c.op = "Equal" ->
           LET a == Eval(c.arg, t)
           IN  IF a = NULL THEN NULL ELSE Some(a[1] = c.value)
      [] c.op = "And" ->
           LET l == Cond(c.left, t)
               r == Cond(c.right, t)
           IN  IF l = Some(FALSE) \/ r = Some(FALSE) THEN Some(FALSE)
               ELSE IF l = NULL \/ r = NULL THEN NULL
               ELSE Some(TRUE)

Extend(t, alias, row) ==
    [a \in DOMAIN t \cup {alias} |-> IF a = alias THEN row ELSE t[a]]

JoinStep(tuples, j, data) ==
    UNION { LET key == Eval(j.left, t)
                matches == { r \in data[j.model] :
                               key # NULL /\ key = r[j.right.name] }
            IN  IF matches # {}
                THEN { Extend(t, j.alias, r) : r \in matches }
                ELSE IF j.type_ = "LEFT OUTER"
                THEN { Extend(t, j.alias, NullRow(j.model)) }
                ELSE {}
            : t \in tuples }

RECURSIVE JoinAll(_, _, _, _)
JoinAll(tuples, joins, i, data) ==
    IF i > Len(joins) THEN tuples
    ELSE JoinAll(JoinStep(tuples, joins[i], data), joins, i + 1, data)

Project(cols, t) ==
    [a \in { cols[i].as_ : i \in DOMAIN cols } |->
       LET i == CHOOSE k \in DOMAIN cols : cols[k].as_ = a
       IN  Eval(cols[i].expr, t)]

Select(query, data) ==
    LET base == { [a \in {query.from_.base.alias} |-> r] :
                    r \in data[query.from_.base.model] }
        joined == JoinAll(base, query.from_.joins, 1, data)
        kept == { t \in joined : Cond(query.where, t) = Some(TRUE) }
        row == [t \in kept |-> Project(query.columns, t)]
    IN  [r \in { row[t] : t \in kept } |->
           Cardinality({ t \in kept : row[t] = r })]

(***************************************************************************)
(* The driver's exceptions.  A message is its sequence of words; the test  *)
(* 'CONCURRENTLY' in e.message is case-sensitive containment.              *)
(***************************************************************************)
Error(class, message) == [class |-> class, message |-> message]

in(word, message) == \E i \in DOMAIN message : message[i] = word

SyntaxErrorAtConcurrently ==
    Error("ProgrammingError",
          <<"syntax", "error", "at", "or", "near", "CONCURRENTLY">>)
NotPopulated ==
    Error("NotSupportedError",
          <<"CONCURRENTLY", "cannot", "be", "used", "when", "the",
            "materialized", "view", "is", "not", "populated">>)
UndefinedTable ==
    Error("ProgrammingError",
          <<"relation", "dw_sale_line", "does", "not", "exist">>)
DuplicateTable ==
    Error("ProgrammingError",
          <<"relation", "dw_sale_line", "already", "exists">>)
DuplicateIndex ==
    Error("ProgrammingError",
          <<"relation", "unique_id", "already", "exists">>)
NoUniqueIndex ==
    Error("OperationalError",
          <<"cannot", "refresh", "materialized", "view", "dw_sale_line",
            "concurrently">>)
NotAMaterializedView ==
    Error("NotSupportedError",
          <<"dw_sale_line", "is", "not", "a", "materialized", "view">>)
ConnectionLost ==
    Error("OperationalError",
          <<"server", "closed", "the", "connection", "unexpectedly">>)
CanceledWhileRefreshing ==
    Error("OperationalError",
          <<"canceling", "statement", "REFRESH", "MATERIALIZED", "VIEW",
            "CONCURRENTLY", "dw_sale_line">>)
NotCallable ==
    Error("TypeError", <<"cursor", "object", "is", "not", "callable">>)

\* Failures a refresh statement can meet whatever the state of the view:
\* an engine without CONCURRENTLY, a name that is no materialized view, a
\* lost connection, a cancelled statement.
Faults ==
    {SyntaxErrorAtConcurrently, NotAMaterializedView, ConnectionLost,
     CanceledWhileRefreshing}

(***************************************************************************)
(* The engine's materialized view dw_sale_line and the five statements     *)
(* the module sends.                                                       *)
(***************************************************************************)
DROP == "DROP MATERIALIZED VIEW IF EXISTS dw_sale_line"
CREATE == "CREATE MATERIALIZED VIEW dw_sale_line AS ... WITH NO DATA"
INDEX == "CREATE UNIQUE INDEX unique_id ON dw_sale_line (id)"
REFRESH_CONCURRENTLY == "REFRESH MATERIALIZED VIEW CONCURRENTLY dw_sale_line"
REFRESH == "REFRESH MATERIALIZED VIEW dw_sale_line"

EmptyBag == [r \in {} |-> 0]
NoView == [exists |-> FALSE]
Ok(view) == [view |-> view, raised |-> NULL]
Raise(view, e) == [view |-> view, raised |-> Some(e)]

\* What statement sql does to the view as the executing transaction sees
\* it; query is the select statement of a CREATE, data the source tables.
Execute(sql, view, query, data) ==
    CASE sql = DROP -> Ok(NoView)
      [] sql = CREATE ->
           IF view.exists THEN Raise(view, DuplicateTable)
           ELSE Ok([exists |-> TRUE, query |-> query, populated |-> FALSE,
                    rows |-> EmptyBag, indexes |-> {}])
      [] sql = INDEX ->
           IF ~view.exists THEN Raise(view, UndefinedTable)
           ELSE IF \E x \in view.indexes : x.name = "unique_id"
           THEN Raise(view, DuplicateIndex)
           ELSE Ok([view EXCEPT !.indexes =
                      @ \cup {[name |-> "unique_id", column |-> "id",
                               unique |-> TRUE]}])
      [] sql \in {REFRESH_CONCURRENTLY, REFRESH} ->
           IF ~view.exists THEN Raise(view, UndefinedTable)
           ELSE IF sql = REFRESH_CONCURRENTLY /\ ~view.populated
           THEN Raise(view, NotPopulated)
           ELSE IF sql = REFRESH_CONCURRENTLY
                   /\ ~\E x \in view.indexes : x.unique
           THEN Raise(view, NoUniqueIndex)
           ELSE Ok([view EXCEPT !.populated = TRUE,
                                !.rows = Select(view.query, data)])

(***************************************************************************)
(* State.                                                                  *)
(***************************************************************************)
VARIABLES
    db,              \* the committed source tables, by registry name
    pool,            \* the registered entities (Pool)
    psycopg2,        \* whether the driver was imported (sale.py 13-16)
    dw_sale_line,    \* the committed materialized view
    transactions,    \* the framework's stack of transactions; Transaction()
                     \* is its top
    pc,              \* the caller's position in refresh_data_warehouse
    log,             \* what the current or last call did, in order
    result,          \* how the last call ended
    entry,           \* when the current call began: the committed view,
                     \* and the call that came before it
    refreshed_from,  \* the source tables the last refresh statement read
    writes           \* source writes so far

vars == <<db, pool, psycopg2, dw_sale_line, transactions, pc, log, result,
          entry, refreshed_from, writes>>

SaleStates ==
    {"draft", "quotation", "confirmed", "processing", "done", "cancel"}

\* Two orders with one line each; order 1 is confirmed and fully linked,
\* order 2 is a draft.  The channel exists only where sale.channel is
\* registered.
InitialData(registered) ==
    [m \in RequiredModels \cup OptionalModels |->
       CASE m = "sale.line" ->
              {[id |-> Some(1), sale |-> Some(1), type |-> Some("line"),
                quantity |-> Some(2), unit_price |-> Some(3),
                product |-> Some(1)],
               [id |-> Some(2), sale |-> Some(2), type |-> Some("line"),
                quantity |-> Some(1), unit_price |-> Some(4),
                product |-> Some(1)]}
         [] m = "sale.sale" ->
              {[id |-> Some(1), state |-> Some("confirmed"),
                reference |-> Some("SO1"),
                sale_date |-> Some([year |-> 2015, month |-> 7, day |-> 9]),
                party |-> Some(1), currency |-> Some(1),
                shipment_address |-> Some(1), invoice_address |-> Some(2),
                channel |-> IF "sale.channel" \in registered THEN Some(1)
                            ELSE NULL],
               [id |-> Some(2), state |-> Some("draft"),
                reference |-> NULL, sale_date |-> NULL,
                party |-> Some(1), currency |-> Some(1),
                shipment_address |-> Some(2), invoice_address |-> Some(2),
                channel |-> NULL]}
         [] m = "product.product" ->
              {[id |-> Some(1), code |-> Some("P1"), template |-> Some(1)]}
         [] m = "product.template" ->
              {[id |-> Some(1), name |-> Some("Widget"),
                category |-> Some(1)]}
         [] m = "product.category" ->
              {[id |-> Some(1), name |-> Some("Tools")]}
         [] m = "party.party" -> {[id |-> Some(1), name |-> Some("Alice")]}
         [] m = "party.address" ->
              {[id |-> Some(1), country |-> Some(1), subdivision |-> Some(1)],
               [id |-> Some(2), country |-> Some(2), subdivision |-> Some(2)]}
         [] m = "country.country" ->
              {[id |-> Some(1), code |-> Some("US"),
                name |-> Some("United States")],
               [id |-> Some(2), code |-> Some("IN"), name |-> Some("India")]}
         [] m = "country.subdivision" ->
              {[id |-> Some(1), code |-> Some("US-FL"),
                name |-> Some("Florida")],
               [id |-> Some(2), code |-> Some("IN-UP"),
                name |-> Some("Uttar Pradesh")]}
         [] m = "currency.currency" -> {[id |-> Some(1), code |-> Some("USD")]}
         [] m = "sale.channel" ->
              IF m \in registered
              THEN {[id |-> Some(1), code |-> Some("WEB"),
                     name |-> Some("Webshop")]}
              ELSE {}]

\* The writes other users commit to the source tables: a text column, a
\* number column, or a reference unset.
TextWrites ==
    {[model |-> "sale.sale", id |-> Some(i), field |-> "state",
      value |-> Some(v)] : i \in {1, 2}, v \in SaleStates}
    \cup
    {[model |-> "sale.line", id |-> Some(i), field |-> "type",
      value |-> Some(v)] : i \in {1, 2}, v \in {"line", "comment"}}

NumberWrites ==
    {[model |-> "sale.line", id |-> Some(i), field |-> f, value |-> Some(5)]
       : i \in {1, 2}, f \in {"quantity", "unit_price"}}

ReferenceWrites ==
    {[model |-> "sale.line", id |-> Some(i), field |-> f, value |-> NULL]
       : i \in {1, 2}, f \in {"product", "sale"}}
    \cup
    {[model |-> "sale.sale", id |-> Some(1), field |-> f, value |-> NULL]
       : f \in {"party", "currency", "shipment_address", "invoice_address",
                "channel"}}
    \cup
    {[model |-> "product.product", id |-> Some(1), field |-> "template",
      value |-> NULL],
     [model |-> "product.template", id |-> Some(1), field |-> "category",
      value |-> NULL]}
    \cup
    {[model |-> "party.address", id |-> Some(i), field |-> f, value |-> NULL]
       : i \in {1, 2}, f \in {"country", "subdivision"}}

\* The select statement build_data_warehouse renders (sale.py 170-171).
rebuild_query(registered) ==
    LET q == get_warehouse_query(registered)
    IN  [from_ |-> q.from_, columns |-> q.columns, where |-> q.where]

\* The view as the three setup statements leave it.
SetUp(view, query, data) ==
    LET dropped == Execute(DROP, view, query, data)
        created == Execute(CREATE, dropped.view, query, data)
    IN  Execute(INDEX, created.view, query, data)

Transaction == transactions[Len(transactions)]
NoResult == [op |-> "none", outcome |-> "none", raised |-> NULL]

\* The view exists or not: the setup statements were run on this database
\* (by an earlier release or a downstream build) or were not.
Init ==
    /\ pool \in {RequiredModels, RequiredModels \cup OptionalModels}
    /\ psycopg2 \in BOOLEAN
    /\ db = InitialData(pool)
    /\ dw_sale_line \in
         {NoView, SetUp(NoView, rebuild_query(pool), db).view}
    /\ transactions = << [id |-> 0, work |-> NULL] >>
    /\ pc = "idle"
    /\ log = << >>
    /\ result = NoResult
    /\ entry = [view |-> dw_sale_line, after |-> "none"]
    /\ refreshed_from = db
    /\ writes = 0

(***************************************************************************)
(* Other users' committed writes to the source tables.                     *)
(***************************************************************************)
Written(w) ==
    /\ \E r \in db[w.model] : r.id = w.id /\ r[w.field] # w.value
    /\ db' = [db EXCEPT ![w.model] =
                { IF r.id = w.id THEN [r EXCEPT ![w.field] = w.value]
                  ELSE r : r \in @ }]

Write ==
    /\ writes < MaxWrites
    /\ \/ \E w \in TextWrites : Written(w)
       \/ \E w \in NumberWrites : Written(w)
       \/ \E w \in ReferenceWrites : Written(w)
    /\ writes' = writes + 1
    /\ UNCHANGED <<pool, psycopg2, dw_sale_line, transactions, pc, log,
                   result, entry, refreshed_from>>

(***************************************************************************)
(* The framework's transactions.  Transaction() is the top of the stack;   *)
(* new_transaction() pushes a transaction, leaving its with block pops it  *)
(* and drops what it did not commit.  A transaction's work is the view as  *)
(* its uncommitted statements left it.                                     *)
(***************************************************************************)
Event(op, txn, sql, raised) ==
    [op |-> op, txn |-> txn, sql |-> sql, raised |-> raised]

Visible(txn) == IF txn.work = NULL THEN dw_sale_line ELSE txn.work[1]

Opened(events) ==
    Cardinality({ i \in DOMAIN events : events[i].op = "new_transaction" })

new_transaction(stack, events) ==
    Append(stack, [id |-> Opened(events) + 1, work |-> NULL])

exit(stack) == SubSeq(stack, 1, Len(stack) - 1)

SetWork(stack, work) == [stack EXCEPT ![Len(stack)].work = work]

\* connection.cursor(): a DB-API cursor.  It offers execute(); the object
\* itself is not callable.
Cursor(txn) == [txn |-> txn.id, callable |-> FALSE]

\* cursor.execute(sql): the statement, or the fault it meets.
cursor_execute(cursor, sql, fault, view, query, data) ==
    IF fault # NULL THEN Raise(view, fault[1])
    ELSE Execute(sql, view, query, data)

\* cursor(sql): calling the cursor object.
cursor_call(cursor, sql, view, query, data) ==
    IF cursor.callable THEN cursor_execute(cursor, sql, NULL, view, query, data)
    ELSE Raise(view, NotCallable)

(***************************************************************************)
(* SaleLine.build_data_warehouse, in the caller's transaction.             *)
(***************************************************************************)
RECURSIVE cursor_calls(_, _, _, _, _, _)
cursor_calls(cursor, statements, i, state, query, data) ==
    IF i > Len(statements) \/ state.raised # NULL THEN state
    ELSE cursor_calls(cursor, statements, i + 1,
                      cursor_call(cursor, statements[i], state.view, query,
                                  data),
                      query, data)

build_statements(cursor, view, registered, data) ==
    cursor_calls(cursor, <<DROP, CREATE, INDEX>>, 1, Ok(view),
                 rebuild_query(registered), data)

Build ==
    LET cursor == Cursor(Transaction)
        r == build_statements(cursor, Visible(Transaction), pool, db)
    IN  /\ transactions' =
             IF r.view = Visible(Transaction) THEN transactions
             ELSE SetWork(transactions, Some(r.view))
        /\ log' = << Event("cursor", cursor.txn, "", r.raised) >>
        /\ result' = [op |-> "build_data_warehouse",
                      outcome |-> IF r.raised = NULL THEN "Returned"
                                  ELSE "Propagated",
                      raised |-> r.raised]
        /\ entry' = [view |-> dw_sale_line, after |-> result.op]
        /\ UNCHANGED <<db, pool, psycopg2, dw_sale_line, pc, refreshed_from,
                       writes>>

build_data_warehouse ==
    /\ pc = "idle"
    /\ Build

\* SaleLine.__register__: the build is skipped under test.
register ==
    /\ pc = "idle"
    /\ \E Pool_test \in BOOLEAN :
         IF ~Pool_test THEN Build ELSE UNCHANGED vars

(***************************************************************************)
(* SaleLine.refresh_data_warehouse.  Each database round trip is a step;   *)
(* other users' writes may fall between two steps.                         *)
(***************************************************************************)
\* The guard never taking the driver for missing.
driver_never_missing(driver) == FALSE

\* if not psycopg2 (sale.py 193)
driver_missing(driver) == ~driver

\* The handler with the test of the message left out.
caught_whatever_message(e) ==
    e.class \in {"NotSupportedError", "ProgrammingError"}

\* The handler with the test of the exception's class left out.
caught_whatever_class(e) ==
    in("CONCURRENTLY", e.message)

\* except (NotSupportedError, ProgrammingError) and no re-raise
\* (sale.py 203-206): the error is taken as the unsupported mode.
caught(e) ==
    /\ e.class \in {"NotSupportedError", "ProgrammingError"}
    /\ in("CONCURRENTLY", e.message)

\* The fallback refreshing CONCURRENTLY again.
fallback_statement_concurrently == REFRESH_CONCURRENTLY

\* The statement of the fallback (sale.py 215-217).
fallback_statement == REFRESH

\* The statement of the first attempt (sale.py 199-201).
first_statement == REFRESH_CONCURRENTLY

MaybeFault == {NULL} \cup { Some(f) : f \in Faults }

refresh_begin ==
    /\ pc = "idle"
    /\ entry' = [view |-> dw_sale_line, after |-> result.op]
    /\ IF driver_missing(psycopg2)
       THEN /\ log' = << Event("logger.info", Transaction.id,
                               "psycopg2 not found", NULL) >>
            /\ result' = [op |-> "refresh_data_warehouse",
                          outcome |-> "Skipped", raised |-> NULL]
            /\ UNCHANGED <<transactions, pc>>
       ELSE /\ transactions' = new_transaction(transactions, << >>)
            /\ log' = << Event("new_transaction", 1, "", NULL) >>
            /\ result' = NoResult
            /\ pc' = "first_execute"
    /\ UNCHANGED <<db, pool, psycopg2, dw_sale_line, refreshed_from, writes>>

\* cursor.execute(...) inside the with block.  A raised error leaves the
\* block, which pops the transaction; it then either propagates or is
\* caught, in which case the caller goes on to the fallback.
Executed(sql, fault, on_success, on_caught, may_catch) ==
    LET cursor == Cursor(Transaction)
        r == cursor_execute(cursor, sql, fault, Visible(Transaction),
                            NULL, db)
        done == Event("execute", cursor.txn, sql, r.raised)
    IN  IF r.raised = NULL
        THEN /\ transactions' = SetWork(transactions, Some(r.view))
             /\ refreshed_from' = db
             /\ log' = Append(log, done)
             /\ pc' = on_success
             /\ UNCHANGED result
        ELSE /\ transactions' = exit(transactions)
             /\ UNCHANGED refreshed_from
             /\ IF may_catch /\ caught(r.raised[1])
                THEN /\ log' = log \o
                          << done, Event("exit", cursor.txn, "", NULL),
                             Event("logger.info",
                                   transactions[Len(transactions) - 1].id,
                                   "CONCURRENTLY Materialized refresh failed",
                                   NULL) >>
                     /\ pc' = on_caught
                     /\ UNCHANGED result
                ELSE /\ log' = log \o
                          << done, Event("exit", cursor.txn, "", NULL) >>
                     /\ pc' = "idle"
                     /\ result' = [op |-> "refresh_data_warehouse",
                                   outcome |-> "Propagated",
                                   raised |-> r.raised]

\* transaction.commit(), then the end of the with block and the return.
Committed ==
    /\ dw_sale_line' = Visible(Transaction)
    /\ transactions' = exit(transactions)
    /\ log' = log \o << Event("commit", Transaction.id, "", NULL),
                        Event("exit", Transaction.id, "", NULL) >>
    /\ result' = [op |-> "refresh_data_warehouse", outcome |-> "Committed",
                  raised |-> NULL]
    /\ pc' = "idle"
    /\ UNCHANGED <<db, pool, psycopg2, entry, refreshed_from, writes>>

first_execute ==
    /\ pc = "first_execute"
    /\ \E fault \in MaybeFault :
         Executed(first_statement, fault, "first_commit", "rollback", TRUE)
    /\ UNCHANGED <<db, pool, psycopg2, dw_sale_line, entry, writes>>

first_commit ==
    /\ pc = "first_commit"
    /\ Committed

\* Transaction().rollback() in the handler, then the second with block.
rollback ==
    /\ pc = "rollback"
    /\ LET rolled == SetWork(transactions, NULL)
       IN  /\ transactions' = new_transaction(rolled, log)
           /\ log' = log \o
                << Event("rollback", Transaction.id, "", NULL),
                   Event("new_transaction", Opened(log) + 1, "", NULL) >>
    /\ pc' = "fallback_execute"
    /\ UNCHANGED <<db, pool, psycopg2, dw_sale_line, result, entry,
                   refreshed_from, writes>>

fallback_execute ==
    /\ pc = "fallback_execute"
    /\ \E fault \in MaybeFault :
         Executed(fallback_statement, fault, "fallback_commit", "idle", FALSE)
    /\ UNCHANGED <<db, pool, psycopg2, dw_sale_line, entry, writes>>

fallback_commit ==
    /\ pc = "fallback_commit"
    /\ Committed

Next ==
    \/ Write
    \/ build_data_warehouse
    \/ register
    \/ refresh_begin
    \/ first_execute
    \/ first_commit
    \/ rollback
    \/ fallback_execute
    \/ fallback_commit

Spec == Init /\ [][Next]_vars

(***************************************************************************)
(* Vocabulary of the properties.                                           *)
(***************************************************************************)
\* The source lines that qualify: type "line", in an order that is
\* confirmed, processing or done.
Qualifying(data) ==
    { l \in data["sale.line"] :
        /\ l.type = Some("line")
        /\ \E s \in data["sale.sale"] :
             /\ s.id = l.sale
             /\ s.state \in {Some("confirmed"), Some("processing"),
                             Some("done")} }

\* The recognised unsupported-mode condition.
Unsupported(e) ==
    /\ e.class \in {"NotSupportedError", "ProgrammingError"}
    /\ in("CONCURRENTLY", e.message)

RowsFor(view, id) == { r \in DOMAIN view.rows : r.id = id }

\* The view holds exactly one row per line of lines, and no other row.
Holds(view, lines) ==
    /\ view.exists
    /\ view.populated
    /\ { r.id : r \in DOMAIN view.rows } = { l.id : l \in lines }
    /\ \A l \in lines :
         \E r \in RowsFor(view, l.id) :
           /\ RowsFor(view, l.id) = {r}
           /\ view.rows[r] = 1

IsStatement(e) == e.op = "execute"
IsWork(e) == e.op \in {"rollback", "execute", "commit"}
IsCommit(e) == e.op = "commit"
IsFirst(e) == e.op = "execute" /\ e.sql = REFRESH_CONCURRENTLY
IsBlocking(e) == e.op = "execute" /\ e.sql = REFRESH

Ended == pc = "idle" /\ result.op = "refresh_data_warehouse"

\* The first attempt of the current or last refresh call raised e.
FirstRaised(e) ==
    /\ Len(log) >= 2
    /\ IsFirst(log[2])
    /\ log[2].raised = Some(e)

FirstRaisedUnsupported ==
    /\ Len(log) >= 2
    /\ IsFirst(log[2])
    /\ log[2].raised # NULL
    /\ Unsupported(log[2].raised[1])

FirstRaisedOther ==
    /\ Len(log) >= 2
    /\ IsFirst(log[2])
    /\ log[2].raised # NULL
    /\ ~Unsupported(log[2].raised[1])

(***************************************************************************)
(* C1.  When the first, non-blocking attempt raises the unsupported-mode   *)
(* error, the call does, in this order, a rollback and then the blocking   *)
(* REFRESH MATERIALIZED VIEW dw_sale_line; when that statement goes        *)
(* through, its transaction is committed next, the call returns without    *)
(* raising, and the snapshot holds the rows that qualified in the source   *)
(* data the statement read.                                                *)
(***************************************************************************)
C1_RetryLaw ==
    (Ended /\ FirstRaisedUnsupported) =>
      LET work == SelectSeq(SubSeq(log, 3, Len(log)), IsWork)
      IN  /\ Len(work) >= 2
          /\ work[1].op = "rollback"
          /\ IsBlocking(work[2])
          /\ work[2].raised = NULL =>
               /\ Len(work) = 3
               /\ work[3].op = "commit"
               /\ work[3].txn = work[2].txn
               /\ result.outcome = "Committed"
               /\ result.raised = NULL
               /\ Holds(dw_sale_line, Qualifying(refreshed_from))

C1_Witness ==
    /\ Ended
    /\ FirstRaised(NotPopulated)
    /\ result.outcome = "Committed"
    /\ writes > 0
    /\ Cardinality(DOMAIN dw_sale_line.rows) = 2

(***************************************************************************)
(* C2.  When the first attempt fails with an error that is not the         *)
(* recognised unsupported-mode condition, that same error is propagated,   *)
(* no blocking refresh is attempted, nothing is committed, and the         *)
(* snapshot is what it was before the call.                                *)
(***************************************************************************)
C2_OtherErrorPropagates ==
    FirstRaisedOther =>
      /\ Ended
      /\ result.outcome = "Propagated"
      /\ result.raised = log[2].raised
      /\ \A i \in DOMAIN log :
           /\ ~IsBlocking(log[i])
           /\ ~IsCommit(log[i])
      /\ Len(SelectSeq(log, IsStatement)) = 1
      /\ dw_sale_line = entry.view

C2_Witness ==
    /\ FirstRaised(CanceledWhileRefreshing)
    /\ result.outcome = "Propagated"
    /\ dw_sale_line.exists
    /\ dw_sale_line.populated
    /\ writes > 0

(***************************************************************************)
(* C3.  After every successful refresh, the identifiers in the snapshot    *)
(* are exactly those of the source lines that, when the refresh statement  *)
(* read them, had type "line" and an order that was confirmed, processing  *)
(* or done; each occurs in exactly one row, whose amount is quantity times *)
(* unit price.                                                             *)
(***************************************************************************)
C3_SnapshotIsQualifyingLines ==
    (Ended /\ result.outcome = "Committed") =>
      /\ Holds(dw_sale_line, Qualifying(refreshed_from))
      /\ \A l \in Qualifying(refreshed_from) :
           \A r \in RowsFor(dw_sale_line, l.id) :
             /\ r.quantity = l.quantity
             /\ r.amount = Some(l.quantity[1] * l.unit_price[1])

C3_Witness ==
    /\ Ended
    /\ result.outcome = "Committed"
    /\ writes > 0
    /\ entry.view.exists
    /\ entry.view.populated
    /\ Qualifying(refreshed_from) # Qualifying(InitialData(pool))
    /\ \E r \in DOMAIN dw_sale_line.rows : r.amount = Some(4)

(***************************************************************************)
(* C4.  A missing reference on a left-outer join does not remove a line:   *)
(* the join chain yields exactly one combination for every line that has   *)
(* an order and none for a line without one, and every qualifying line has *)
(* exactly one row, whose reference columns are those of the entities the  *)
(* line reaches, and null where an entity on the way is missing.           *)
(***************************************************************************)
Lookup(data, m, key) ==
    LET found == { r \in data[m] : key # NULL /\ r.id = key }
    IN  IF found = {} THEN NullRow(m) ELSE CHOOSE r \in found : TRUE

Denormalized(r, l, data) ==
    LET order == Lookup(data, "sale.sale", l.sale)
        product == Lookup(data, "product.product", l.product)
        template == Lookup(data, "product.template", product.template)
        category == Lookup(data, "product.category", template.category)
        party == Lookup(data, "party.party", order.party)
        currency == Lookup(data, "currency.currency", order.currency)
        shipment == Lookup(data, "party.address", order.shipment_address)
        invoice == Lookup(data, "party.address", order.invoice_address)
        s_country == Lookup(data, "country.country", shipment.country)
        s_state == Lookup(data, "country.subdivision", shipment.subdivision)
        i_country == Lookup(data, "country.country", invoice.country)
        i_state == Lookup(data, "country.subdivision", invoice.subdivision)
        channel == Lookup(data, "sale.channel", order.channel)
    IN  /\ r.product_code = product.code
        /\ r.product_name = template.name
        /\ r.product_category = category.name
        /\ r.party_name = party.name
        /\ r.party_id = party.id
        /\ r.currency = currency.code
        /\ r.shipment_country_code = s_country.code
        /\ r.shipment_country_name = s_country.name
        /\ r.shipment_state_code = s_state.code
        /\ r.shipment_state_name = s_state.name
        /\ r.invoice_country_code = i_country.code
        /\ r.invoice_country_name = i_country.name
        /\ r.invoice_state_code = i_state.code
        /\ r.invoice_state_name = i_state.name
        /\ "channel_code" \in DOMAIN r =>
             /\ r.channel_code = channel.code
             /\ r.channel_name = channel.name

C4_MissingReferenceKeepsLine ==
    (Ended /\ result.outcome = "Committed") =>
      LET data == refreshed_from
          joined == JoinAll({ [a \in {"sale_line"} |-> l] :
                                l \in data["sale.line"] },
                            dw_sale_line.query.from_.joins, 1, data)
      IN  /\ \A l \in data["sale.line"] :
               Cardinality({ t \in joined : t["sale_line"] = l }) =
                 IF \E s \in data["sale.sale"] : s.id = l.sale THEN 1 ELSE 0
          /\ \A l \in Qualifying(data) :
               \E r \in RowsFor(dw_sale_line, l.id) :
                 /\ RowsFor(dw_sale_line, l.id) = {r}
                 /\ dw_sale_line.rows[r] = 1
                 /\ Denormalized(r, l, data)

C4_Witness ==
    /\ Ended
    /\ result.outcome = "Committed"
    /\ \E l \in Qualifying(refreshed_from) :
         /\ l.product = NULL
         /\ \E r \in RowsFor(dw_sale_line, l.id) :
              /\ r.product_code = NULL
              /\ r.product_name = NULL
              /\ r.product_category = NULL
              /\ r.party_name = Some("Alice")

(***************************************************************************)
(* C6.  Without sale.channel in the registry get_warehouse_query returns   *)
(* the fixed 24 columns and 12 joins; with it, the same 24 columns in the  *)
(* same order followed by channel_code and channel_name, and one more      *)
(* join, left-outer, on the order's channel; the filter is the same.       *)
(***************************************************************************)
Aliases(cols) == [i \in DOMAIN cols |-> cols[i].as_]

FixedAliases ==
    << "id", "quantity", "amount", "product_code", "product_name",
       "product_category", "party_name", "party_id", "sale_id",
       "sale_reference", "currency", "state", "invoice_country_code",
       "invoice_country_name", "invoice_state_code", "invoice_state_name",
       "shipment_country_code", "shipment_country_name",
       "shipment_state_code", "shipment_state_name", "sale_date",
       "sale_year", "sale_month", "sale_day" >>

C6_OptionalChannel ==
    LET q == get_warehouse_query(pool)
        plain == get_warehouse_query(pool \ {"sale.channel"})
    IN  /\ Len(plain.columns) = 24
        /\ Aliases(plain.columns) = FixedAliases
        /\ Len(plain.from_.joins) = 12
        /\ q.where = plain.where
        /\ "sale.channel" \notin pool => q = plain
        /\ "sale.channel" \in pool =>
             /\ Len(q.columns) = 26
             /\ SubSeq(q.columns, 1, 24) = plain.columns
             /\ q.columns[25] =
                  As(Column("sale_channel", "code"), "channel_code")
             /\ q.columns[26] =
                  As(Column("sale_channel", "name"), "channel_name")
             /\ Len(q.from_.joins) = 13
             /\ SubSeq(q.from_.joins, 1, 12) = plain.from_.joins
             /\ q.from_.base = plain.from_.base
             /\ q.from_.joins[13] =
                  Join("sale_channel", "sale.channel", "LEFT OUTER",
                       Column("sale_sale", "channel"),
                       Column("sale_channel", "id"))

C6_Witness ==
    /\ "sale.channel" \in pool
    /\ result.op = "build_data_warehouse"
    /\ dw_sale_line.exists
    /\ Len(dw_sale_line.query.columns) = 26
    /\ \E r \in DOMAIN dw_sale_line.rows : r.channel_code = Some("WEB")

(***************************************************************************)
(* C7.  Without the driver, refresh_data_warehouse returns without         *)
(* raising, opens no transaction, sends no statement, commits and rolls    *)
(* back nothing, and leaves the snapshot as it was.                        *)
(***************************************************************************)
C7_NoDriverNoOp ==
    ~psycopg2 =>
      /\ pc = "idle"
      /\ Len(transactions) = 1
      /\ dw_sale_line = entry.view
      /\ result.op = "refresh_data_warehouse" =>
           /\ result.outcome = "Skipped"
           /\ result.raised = NULL
           /\ \A i \in DOMAIN log :
                log[i].op \notin {"new_transaction", "execute", "commit",
                                  "rollback"}

C7_Witness ==
    /\ ~psycopg2
    /\ Ended
    /\ result.outcome = "Skipped"
    /\ dw_sale_line.exists
    /\ writes > 0

(***************************************************************************)
(* C9.  A refresh call sends at most one non-blocking and at most one      *)
(* blocking refresh, the blocking one only after its non-blocking attempt  *)
(* raised the unsupported-mode error; it commits at most once; an error on *)
(* the blocking path is propagated with nothing further tried; and a call  *)
(* that has ended is Committed, Propagated or Skipped.                     *)
(***************************************************************************)
C9_NoSecondRetry ==
    /\ Len(SelectSeq(log, IsFirst)) <= 1
    /\ Len(SelectSeq(log, IsBlocking)) <= 1
    /\ Len(SelectSeq(log, IsCommit)) <= 1
    /\ \A j \in DOMAIN log :
         IsBlocking(log[j]) =>
           /\ \E i \in 1..(j - 1) :
                /\ IsFirst(log[i])
                /\ log[i].raised # NULL
                /\ Unsupported(log[i].raised[1])
           /\ log[j].raised # NULL =>
                /\ Ended
                /\ result.outcome = "Propagated"
                /\ result.raised = log[j].raised
                /\ \A k \in (j + 1)..Len(log) : ~IsWork(log[k])
    /\ Ended => result.outcome \in {"Committed", "Propagated", "Skipped"}

C9_Witness ==
    /\ Ended
    /\ result.outcome = "Propagated"
    /\ result.raised = Some(SyntaxErrorAtConcurrently)
    /\ \E j \in DOMAIN log : IsBlocking(log[j]) /\ log[j].raised # NULL

(***************************************************************************)
(* C5.  build_data_warehouse, run from any state and any number of times,  *)
(* completes without error and leaves, as its transaction sees it, one     *)
(* snapshot dw_sale_line with the rendered definition, no rows, not        *)
(* populated, and the unique index on id.                                  *)
(***************************************************************************)
C5_BuildIdempotent ==
    result.op = "build_data_warehouse" =>
      /\ result.outcome = "Returned"
      /\ result.raised = NULL
      /\ Visible(Transaction) =
           [exists |-> TRUE, query |-> rebuild_query(pool),
            populated |-> FALSE, rows |-> EmptyBag,
            indexes |-> {[name |-> "unique_id", column |-> "id",
                          unique |-> TRUE]}]

(***************************************************************************)
(* C8.  On the fallback path the transaction rolled back is the one opened *)
(* for the failed non-blocking attempt, the blocking refresh runs in       *)
(* another, newly opened one, and the caller's own transaction is neither  *)
(* rolled back nor committed by the call.                                  *)
(***************************************************************************)
C8_CallerTransactionUntouched ==
    \A i \in DOMAIN log :
      /\ log[i].op = "rollback" => log[i].txn = log[2].txn
      /\ IsBlocking(log[i]) => log[i].txn \notin {log[2].txn, 0}
      /\ log[i].op \in {"rollback", "commit"} => log[i].txn # 0

====
